---- MODULE Spec2Model ----
(***************************************************************************)
(* The constant-product rebalancing market makers of pymaker:              *)
(*   pymaker/mooniswap.py   MarketMaker._get_amounts / set_price           *)
(*   pymaker/uniswap_v2.py  MarketMaker._get_amounts / set_price           *)
(*                                                                         *)
(* Amounts are Wad values: integers scaled by WAD.  The scale of the       *)
(* program is 10^18; the model keeps the same arithmetic (multiply,        *)
(* divide and number conversion truncate toward zero) at a scale of        *)
(* 10^2 so that every product stays inside TLC's integers.                 *)
(* The Python float that holds delta is modelled by the exact fraction     *)
(* deltaNum / price; the float square root followed by Wad.from_number     *)
(* is modelled by the integer square root of the rescaled value.           *)
(* The float of calculate_value (value.value * percent / 100) is modelled  *)
(* as a float: a mantissa of MantissaBits bits, scaled down like WAD.      *)
(*                                                                         *)
(* Two state machines: Spec is a keeper calling set_price cycle after      *)
(* cycle on a pool; WrapperSpec is a single call of one of the other       *)
(* functions of the wrappers (calculate_value, the swap builders, the      *)
(* quote functions).                                                       *)
(***************************************************************************)
EXTENDS Integers, Naturals, Sequences, FiniteSets, TLC

VARIABLES pool, cfg, call, cycles, executed, prev, probe

vars == <<pool, cfg, call, cycles, executed, prev, probe>>

(***************************************************************************)
(* Bounds of the model.                                                    *)
(***************************************************************************)
WAD == 100
ReserveUnit == 5
MaxReserve == 8
PriceUnit == 10
MaxPrice == 20
TolUnit == 5
MaxTol == 2
MaxCycles == 2
FeePercent == 3
\* bits of the mantissa of a float (the program's floats have 53)
MantissaBits == 5
MaxValue == 150
PercentUnit == 10
MaxPercent == 5
MaxAddress == 2
MaxPathLen == 3
MaxAmount == 3

Reserves == {ReserveUnit * i : i \in 0..MaxReserve}
MarketPrices == {PriceUnit * i : i \in (-1)..MaxPrice}
Tolerances == {TolUnit * i : i \in (-1)..MaxTol}
Fees == {0, FeePercent}
Makers == {"mooniswap", "uniswap"}
Values == 0..MaxValue
Percents == {PercentUnit * i : i \in (-MaxPercent)..MaxPercent}
\* Address('0x0000000000000000000000000000000000000000'), the native asset
ZeroAddress == 0
Addresses == 0..MaxAddress
Paths == UNION {[1..n -> Addresses] : n \in 0..MaxPathLen}
Amounts == 0..MaxAmount
\* the pool's two tokens, in the pool's own order (tokens(0)/token0 first)
Tokens == {0, 1}

Other(t) == 1 - t

(***************************************************************************)
(* Wad arithmetic (pymaker.numeric.Wad).                                   *)
(***************************************************************************)
Abs(x) == IF x < 0 THEN -x ELSE x

\* quotient rounded toward zero (Decimal quantize with ROUND_DOWN), d > 0
TruncDiv(n, d) == IF n >= 0 THEN n \div d ELSE -((-n) \div d)

\* Wad.__mul__
WadMul(x, y) == TruncDiv(x * y, WAD)

\* Wad.__truediv__, y # 0
WadDiv(x, y) == IF y > 0 THEN TruncDiv(x * WAD, y) ELSE TruncDiv(-(x * WAD), -y)

RECURSIVE SqrtSearch(_, _, _)
SqrtSearch(n, lo, hi) ==
    IF lo >= hi THEN lo
    ELSE LET mid == (lo + hi + 1) \div 2
         IN  IF mid * mid <= n THEN SqrtSearch(n, mid, hi)
                               ELSE SqrtSearch(n, lo, mid - 1)

\* largest m with m * m <= n, n >= 0
ISqrt(n) == SqrtSearch(n, 0, IF n < 4 THEN n ELSE n \div 2)

\* Wad.from_number(sqrt(x)) for a Wad x >= 0: sqrt(x / WAD) * WAD; the
\* conversion back to a Wad truncates
WadSqrt(x) == ISqrt(x * WAD)

(***************************************************************************)
(* Python floats.  n / d of two ints is the float nearest to the         *)
(* quotient: a mantissa of MantissaBits bits (ties to even) and a power    *)
(* of two.  The float is kept as the fraction num / den.                   *)
(***************************************************************************)
RECURSIVE Pow2(_)
Pow2(n) == IF n = 0 THEN 1 ELSE 2 * Pow2(n - 1)

\* a / b rounded to the nearest integer, ties to even; a >= 0, b > 0
RoundHalfEven(a, b) ==
    LET q == a \div b
        r == a % b
    IN  IF 2 * r < b THEN q
        ELSE IF 2 * r > b THEN q + 1
        ELSE IF q % 2 = 0 THEN q ELSE q + 1

\* least t >= from with n < d * 2^t * 2^MantissaBits
RECURSIVE ExponentUp(_, _, _)
ExponentUp(n, d, from) ==
    IF n < d * Pow2(from) * Pow2(MantissaBits) THEN from ELSE ExponentUp(n, d, from + 1)

\* largest s >= from with n * 2^s < d * 2^MantissaBits; n > 0
RECURSIVE ExponentDown(_, _, _)
ExponentDown(n, d, from) ==
    IF n * Pow2(from + 1) < d * Pow2(MantissaBits) THEN ExponentDown(n, d, from + 1) ELSE from

\* int.__truediv__: the float n / d, for n >= 0 and d > 0
FloatQuotientPos(n, d) ==
    IF n = 0 THEN [num |-> 0, den |-> 1]
    ELSE IF n >= d * Pow2(MantissaBits)
    THEN LET t == ExponentUp(n, d, 1)
         IN  [num |-> RoundHalfEven(n, d * Pow2(t)) * Pow2(t), den |-> 1]
    ELSE LET e == ExponentDown(n, d, 0)
         IN  [num |-> RoundHalfEven(n * Pow2(e), d), den |-> Pow2(e)]

\* int.__truediv__ for d > 0
FloatQuotient(n, d) ==
    IF n >= 0 THEN FloatQuotientPos(n, d)
    ELSE [num |-> -(FloatQuotientPos(-n, d).num), den |-> FloatQuotientPos(-n, d).den]

\* Wad(x) of a float x: the integer part of x
WadOfFloat(x) == TruncDiv(x.num, x.den)

(***************************************************************************)
(* The pool contract as seen through the wrappers: a constant-product      *)
(* pool with a fee of pool.fee percent on the input side.                  *)
(***************************************************************************)
\* output paid for an exact input (getReturn / getAmountOut)
PoolOut(amount, rIn, rOut, fee) ==
    (amount * (100 - fee) * rOut) \div (rIn * 100 + amount * (100 - fee))

\* input charged for an exact output (getAmountIn), 0 < amount < rOut
PoolIn(amount, rIn, rOut, fee) ==
    ((rIn * amount * 100) \div ((rOut - amount) * (100 - fee))) + 1

Failed == [ok |-> FALSE, value |-> 0]
Answer(v) == [ok |-> TRUE, value |-> v]

\* Mooniswap.get_return(src, dst, amount): the contract's getReturn on the
\* live balances; a negative amount cannot be encoded as uint256 and an
\* empty source side divides by zero.
get_return(p, src, dst, amount) ==
    IF amount < 0 \/ p.r[src] * 100 + amount * (100 - p.fee) = 0
    THEN Failed
    ELSE Answer(PoolOut(amount, p.r[src], p.r[dst], p.fee))

\* UniswapRouter.get_amounts_out(amount_in, [src, dst])[-1]: the router
\* reverts on a zero input and on an empty reserve.
get_amounts_out(p, src, dst, amount_in) ==
    IF amount_in <= 0 \/ p.r[src] = 0 \/ p.r[dst] = 0
    THEN Failed
    ELSE Answer(PoolOut(amount_in, p.r[src], p.r[dst], p.fee))

\* UniswapRouter.get_amounts_in(amount_out, [src, dst])[0]: the router
\* reverts on a zero output, an empty reserve and an output the pool
\* cannot pay.
get_amounts_in(p, src, dst, amount_out) ==
    IF amount_out <= 0 \/ p.r[src] = 0 \/ p.r[dst] = 0 \/ amount_out >= p.r[dst]
    THEN Failed
    ELSE Answer(PoolIn(amount_out, p.r[src], p.r[dst], p.fee))

(***************************************************************************)
(* What one set_price call did: the remote calls it made, in order.        *)
(***************************************************************************)
Ev(op, kind, src, dst, amount, limit) ==
    [op |-> op, kind |-> kind, src |-> src, dst |-> dst,
     amount |-> amount, limit |-> limit]

ReservesEv == Ev("reserves", "read", 0, 1, 0, 0)
QuoteEv(kind, src, dst, amount, result) == Ev("quote", kind, src, dst, amount, result)
\* a quote that was asked for and raised
QuoteFailedEv(kind, src, dst, amount) == Ev("quote_failed", kind, src, dst, amount, 0)
SwapEv(kind, src, dst, amount, limit) == Ev("swap", kind, src, dst, amount, limit)

Result(outcome, ra, rb, log) ==
    [outcome |-> outcome, ra |-> ra, rb |-> rb, log |-> log]

NoCall == Result("idle", 0, 0, <<>>)

\* the two target reserves of the constant-product model
\* (sqrt(k * market_price), sqrt(k / market_price)); ok is FALSE where
\* the division or the square root raises
NewReserved(market_price, ra, rb) ==
    LET liquidity_pool_constant == WadMul(ra, rb)
        km == WadMul(liquidity_pool_constant, market_price)
    IN  IF km < 0 \/ market_price = 0
        THEN [ok |-> FALSE, a |-> 0, b |-> 0]
        ELSE LET kd == WadDiv(liquidity_pool_constant, market_price)
             IN  IF kd < 0
                 THEN [ok |-> FALSE, a |-> 0, b |-> 0]
                 ELSE [ok |-> TRUE, a |-> WadSqrt(km), b |-> WadSqrt(kd)]

(***************************************************************************)
(* pymaker/mooniswap.py                                                    *)
(***************************************************************************)
\* reserves answered from the snapshot of the previous call, when there is one
mooniswap_reserves_cached(p, token) ==
    IF call.outcome # "idle"
    THEN (IF token = cfg.first_token THEN call.ra ELSE call.rb)
    ELSE p.r[token]

\* Mooniswap.reserves.map()[token]
mooniswap_reserves(p, token) == p.r[token]

\* _get_amounts with the second delta of the else branch subtracted the
\* other way round
mooniswap_get_amounts_flipped(market_price, ra, rb) ==
    LET new_reserved == NewReserved(market_price, ra, rb)
    IN  IF ~new_reserved.ok
        THEN [ok |-> FALSE, first_token_amount_delta |-> 0, second_token_amount_delta |-> 0]
        ELSE IF new_reserved.a > ra
        THEN [ok |-> TRUE,
              first_token_amount_delta |-> new_reserved.a - ra,
              second_token_amount_delta |-> rb - new_reserved.b]
        ELSE [ok |-> TRUE,
              first_token_amount_delta |-> ra - new_reserved.a,
              second_token_amount_delta |-> rb - new_reserved.b]

\* MarketMaker._get_amounts
mooniswap_get_amounts(market_price, ra, rb) ==
    LET new_reserved == NewReserved(market_price, ra, rb)
    IN  IF ~new_reserved.ok
        THEN [ok |-> FALSE, first_token_amount_delta |-> 0, second_token_amount_delta |-> 0]
        ELSE IF new_reserved.a > ra
        THEN [ok |-> TRUE,
              first_token_amount_delta |-> new_reserved.a - ra,
              second_token_amount_delta |-> rb - new_reserved.b]
        ELSE [ok |-> TRUE,
              first_token_amount_delta |-> ra - new_reserved.a,
              second_token_amount_delta |-> new_reserved.b - rb]

\* MarketMaker.calculate_value
mooniswap_calculate_value(value, percent) ==
    LET percent_value == WadOfFloat(FloatQuotient(value * percent, 100))
    IN  value + percent_value

\* Mooniswap.swap: the transaction it builds
mooniswap_swap(src, dst, amount, min_return) ==
    SwapEv("exact_in", src, dst, amount, min_return)

\* the sell branch with min_return taken from the constant-product model
\* (the other token's delta) instead of the quote
mooniswap_trade_theoretical(p, market_price, ra, rb, src, dst, sold_first) ==
    LET input_data == mooniswap_get_amounts(market_price, ra, rb)
        amount == IF sold_first THEN input_data.first_token_amount_delta
                                ELSE input_data.second_token_amount_delta
        counterpart == IF sold_first THEN input_data.second_token_amount_delta
                                     ELSE input_data.first_token_amount_delta
        min_amount == get_return(p, src, dst, amount)
    IN  IF ~input_data.ok THEN Result("error", ra, rb, <<ReservesEv>>)
        ELSE IF ~min_amount.ok
        THEN Result("error", ra, rb, <<ReservesEv, QuoteFailedEv("exact_in", src, dst, amount)>>)
        ELSE Result("trade", ra, rb,
                    <<ReservesEv,
                      QuoteEv("exact_in", src, dst, amount, min_amount.value),
                      mooniswap_swap(src, dst, amount, counterpart)>>)

\* the sell branch of MarketMaker.set_price: amounts, quote, swap
mooniswap_trade(p, market_price, ra, rb, src, dst, sold_first) ==
    LET input_data == mooniswap_get_amounts(market_price, ra, rb)
        amount == IF sold_first THEN input_data.first_token_amount_delta
                                ELSE input_data.second_token_amount_delta
        min_amount == get_return(p, src, dst, amount)
    IN  IF ~input_data.ok THEN Result("error", ra, rb, <<ReservesEv>>)
        ELSE IF ~min_amount.ok
        THEN Result("error", ra, rb, <<ReservesEv, QuoteFailedEv("exact_in", src, dst, amount)>>)
        ELSE Result("trade", ra, rb,
                    <<ReservesEv,
                      QuoteEv("exact_in", src, dst, amount, min_amount.value),
                      mooniswap_swap(src, dst, amount, min_amount.value)>>)

\* set_price with the first comparison written delta >= max_delta_on_percent
mooniswap_set_price_inclusive(p, market_price, first_token, second_token, max_delta_on_percent) ==
    LET ra == mooniswap_reserves(p, first_token)
        rb == mooniswap_reserves(p, second_token)
    IN  IF rb = 0 THEN Result("error", ra, rb, <<ReservesEv>>)
        ELSE LET mooniswap_price == WadDiv(ra, rb)
                 deltaNum == market_price * 100 - 100 * mooniswap_price
             IN  IF mooniswap_price = 0 THEN Result("error", ra, rb, <<ReservesEv>>)
                 ELSE IF deltaNum >= max_delta_on_percent * mooniswap_price
                 THEN mooniswap_trade(p, market_price, ra, rb, first_token, second_token, TRUE)
                 ELSE IF deltaNum < 0 /\ Abs(deltaNum) > max_delta_on_percent * mooniswap_price
                 THEN mooniswap_trade(p, market_price, ra, rb, second_token, first_token, FALSE)
                 ELSE Result("none", ra, rb, <<ReservesEv>>)

\* MarketMaker.set_price
mooniswap_set_price(p, market_price, first_token, second_token, max_delta_on_percent) ==
    LET ra == mooniswap_reserves(p, first_token)
        rb == mooniswap_reserves(p, second_token)
    IN  IF rb = 0 THEN Result("error", ra, rb, <<ReservesEv>>)
        ELSE LET mooniswap_price == WadDiv(ra, rb)
                 \* delta = deltaNum / mooniswap_price
                 deltaNum == market_price * 100 - 100 * mooniswap_price
             IN  IF mooniswap_price = 0 THEN Result("error", ra, rb, <<ReservesEv>>)
                 ELSE IF deltaNum > max_delta_on_percent * mooniswap_price
                 THEN mooniswap_trade(p, market_price, ra, rb, first_token, second_token, TRUE)
                 ELSE IF deltaNum < 0 /\ Abs(deltaNum) > max_delta_on_percent * mooniswap_price
                 THEN mooniswap_trade(p, market_price, ra, rb, second_token, first_token, FALSE)
                 ELSE Result("none", ra, rb, <<ReservesEv>>)

(***************************************************************************)
(* pymaker/uniswap_v2.py                                                   *)
(***************************************************************************)
\* UniswapPair.reserves.map()[token]
uniswap_reserves(p, token) == p.r[token]

\* MarketMaker._get_amounts
uniswap_get_amounts(market_price, first_token_liquidity_pool_amount, second_token_liquidity_pool_amount) ==
    LET new_reserved == NewReserved(market_price, first_token_liquidity_pool_amount,
                                    second_token_liquidity_pool_amount)
    IN  IF ~new_reserved.ok
        THEN [ok |-> FALSE, exact_value |-> 0, limit |-> 0]
        ELSE [ok |-> TRUE,
              exact_value |-> first_token_liquidity_pool_amount - new_reserved.a,
              limit |-> new_reserved.b - second_token_liquidity_pool_amount]

\* UniswapRouter.swap_from_exact_amount: the transaction it builds
swap_from_exact_amount(amount_in, min_amount_out, src, dst) ==
    SwapEv("exact_in", src, dst, amount_in, min_amount_out)

\* UniswapRouter.swap_to_exact_amount: the transaction it builds
swap_to_exact_amount(max_amount_in, amount_out, src, dst) ==
    SwapEv("exact_out", src, dst, amount_out, max_amount_in)

\* MarketMaker.calculate_value
uniswap_calculate_value(value, percent) ==
    LET percent_value == WadOfFloat(FloatQuotient(value * percent, 100))
    IN  value + percent_value

\* the first branch with the quote asked for input_data.limit
uniswap_sell_first_misquoted(p, market_price, ra, rb, first_token, second_token) ==
    LET input_data == uniswap_get_amounts(market_price, ra, rb)
        amount_in == Abs(input_data.exact_value)
        quoted_in == Abs(input_data.limit)
        a == get_amounts_out(p, first_token, second_token, quoted_in)
    IN  IF ~input_data.ok THEN Result("error", ra, rb, <<ReservesEv>>)
        ELSE IF ~a.ok
        THEN Result("error", ra, rb,
                    <<ReservesEv, QuoteFailedEv("exact_in", first_token, second_token, quoted_in)>>)
        ELSE Result("trade", ra, rb,
                    <<ReservesEv,
                      QuoteEv("exact_in", first_token, second_token, quoted_in, a.value),
                      swap_from_exact_amount(amount_in, a.value, first_token, second_token)>>)

\* the first branch of MarketMaker.set_price (delta > max_delta_on_percent)
uniswap_sell_first(p, market_price, ra, rb, first_token, second_token) ==
    LET input_data == uniswap_get_amounts(market_price, ra, rb)
        amount_in == Abs(input_data.exact_value)
        a == get_amounts_out(p, first_token, second_token, amount_in)
    IN  IF ~input_data.ok THEN Result("error", ra, rb, <<ReservesEv>>)
        ELSE IF ~a.ok
        THEN Result("error", ra, rb,
                    <<ReservesEv, QuoteFailedEv("exact_in", first_token, second_token, amount_in)>>)
        ELSE Result("trade", ra, rb,
                    <<ReservesEv,
                      QuoteEv("exact_in", first_token, second_token, amount_in, a.value),
                      swap_from_exact_amount(amount_in, a.value, first_token, second_token)>>)

\* the second branch with the path of the first: [first_token, second_token]
uniswap_sell_second_reversed(p, market_price, ra, rb, first_token, second_token) ==
    LET input_data == uniswap_get_amounts(market_price, ra, rb)
        amount_out == Abs(input_data.exact_value)
        a == get_amounts_in(p, first_token, second_token, amount_out)
    IN  IF ~input_data.ok THEN Result("error", ra, rb, <<ReservesEv>>)
        ELSE IF ~a.ok
        THEN Result("error", ra, rb,
                    <<ReservesEv, QuoteFailedEv("exact_out", first_token, second_token, amount_out)>>)
        ELSE Result("trade", ra, rb,
                    <<ReservesEv,
                      QuoteEv("exact_out", first_token, second_token, amount_out, a.value),
                      swap_to_exact_amount(a.value, amount_out, first_token, second_token)>>)

\* the second branch of MarketMaker.set_price (delta < 0, |delta| > max_delta_on_percent)
uniswap_sell_second(p, market_price, ra, rb, first_token, second_token) ==
    LET input_data == uniswap_get_amounts(market_price, ra, rb)
        amount_out == Abs(input_data.exact_value)
        a == get_amounts_in(p, second_token, first_token, amount_out)
    IN  IF ~input_data.ok THEN Result("error", ra, rb, <<ReservesEv>>)
        ELSE IF ~a.ok
        THEN Result("error", ra, rb,
                    <<ReservesEv, QuoteFailedEv("exact_out", second_token, first_token, amount_out)>>)
        ELSE Result("trade", ra, rb,
                    <<ReservesEv,
                      QuoteEv("exact_out", second_token, first_token, amount_out, a.value),
                      swap_to_exact_amount(a.value, amount_out, second_token, first_token)>>)

\* set_price returning None for a pool price of zero instead of dividing by it
uniswap_set_price_unpriced(p, market_price, first_token, second_token, max_delta_on_percent) ==
    LET ra == uniswap_reserves(p, first_token)
        rb == uniswap_reserves(p, second_token)
    IN  IF rb = 0 THEN Result("error", ra, rb, <<ReservesEv>>)
        ELSE LET uniswap_price == WadDiv(ra, rb)
                 deltaNum == market_price * 100 - 100 * uniswap_price
             IN  IF uniswap_price = 0 THEN Result("none", ra, rb, <<ReservesEv>>)
                 ELSE IF deltaNum > max_delta_on_percent * uniswap_price
                 THEN uniswap_sell_first(p, market_price, ra, rb, first_token, second_token)
                 ELSE IF deltaNum < 0 /\ Abs(deltaNum) > max_delta_on_percent * uniswap_price
                 THEN uniswap_sell_second(p, market_price, ra, rb, first_token, second_token)
                 ELSE Result("none", ra, rb, <<ReservesEv>>)

\* MarketMaker.set_price
uniswap_set_price(p, market_price, first_token, second_token, max_delta_on_percent) ==
    LET ra == uniswap_reserves(p, first_token)
        rb == uniswap_reserves(p, second_token)
    IN  IF rb = 0 THEN Result("error", ra, rb, <<ReservesEv>>)
        ELSE LET uniswap_price == WadDiv(ra, rb)
                 \* delta = deltaNum / uniswap_price
                 deltaNum == market_price * 100 - 100 * uniswap_price
             IN  IF uniswap_price = 0 THEN Result("error", ra, rb, <<ReservesEv>>)
                 ELSE IF deltaNum > max_delta_on_percent * uniswap_price
                 THEN uniswap_sell_first(p, market_price, ra, rb, first_token, second_token)
                 ELSE IF deltaNum < 0 /\ Abs(deltaNum) > max_delta_on_percent * uniswap_price
                 THEN uniswap_sell_second(p, market_price, ra, rb, first_token, second_token)
                 ELSE Result("none", ra, rb, <<ReservesEv>>)

(***************************************************************************)
(* The pool executing a transaction that set_price built.                  *)
(***************************************************************************)
\* the swap a call built, if it built one
SwapOf(c) == c.log[Len(c.log)]

\* can the pool execute the swap: a positive input, a positive output that
\* reaches the stated minimum (exact input) or an input within the stated
\* maximum (exact output)
CanExecute(p, sw) ==
    IF sw.kind = "exact_in"
    THEN /\ sw.amount > 0
         /\ PoolOut(sw.amount, p.r[sw.src], p.r[sw.dst], p.fee) > 0
         /\ PoolOut(sw.amount, p.r[sw.src], p.r[sw.dst], p.fee) >= sw.limit
    ELSE /\ sw.amount > 0
         /\ sw.amount < p.r[sw.dst]
         /\ p.r[sw.src] > 0
         /\ PoolIn(sw.amount, p.r[sw.src], p.r[sw.dst], p.fee) <= sw.limit

\* the reserves after the swap
Executed(p, sw) ==
    LET paid_in == IF sw.kind = "exact_in" THEN sw.amount
                   ELSE PoolIn(sw.amount, p.r[sw.src], p.r[sw.dst], p.fee)
        paid_out == IF sw.kind = "exact_in"
                    THEN PoolOut(sw.amount, p.r[sw.src], p.r[sw.dst], p.fee)
                    ELSE sw.amount
    IN  [p EXCEPT !.r = [t \in Tokens |->
                            IF t = sw.src THEN p.r[t] + paid_in ELSE p.r[t] - paid_out]]

(***************************************************************************)
(* One call of a function of the wrappers: what was called with which      *)
(* arguments, and what came out (the value returned, or the function,      *)
(* arguments and attached value of the transaction or contract call        *)
(* built).                                                                 *)
(***************************************************************************)
Probe(op, args, path, fn, fn_args, has_value, value) ==
    [op |-> op, args |-> args, path |-> path,
     fn |-> fn, fn_args |-> fn_args, has_value |-> has_value, value |-> value]

NoProbe == Probe("none", <<>>, <<>>, "none", <<>>, FALSE, 0)

Returned(op, args, result) == Probe(op, args, <<>>, "return", <<result>>, FALSE, 0)

\* an assert of the function failed: nothing is built
AssertionError(op, args) == Probe(op, args, <<>>, "AssertionError", <<>>, FALSE, 0)

\* Transact(..., function_name, parameters) without extra
Transact(op, args, path, function_name, parameters) ==
    Probe(op, args, path, function_name, parameters, FALSE, 0)

\* Transact(..., function_name, parameters, {'value': value})
TransactWithValue(op, args, path, function_name, parameters, value) ==
    Probe(op, args, path, function_name, parameters, TRUE, value)

(***************************************************************************)
(* The transactions the wrappers build (the account and the deadline of    *)
(* the router's parameters are left out; the path is kept beside the       *)
(* numeric parameters).                                                    *)
(***************************************************************************)
\* Mooniswap.swap with referral = None
transact_mooniswap_swap(src, dst, amount, min_return) ==
    LET referral == ZeroAddress
        args == <<src, dst, amount, min_return>>
    IN  IF src = ZeroAddress
        THEN TransactWithValue("mooniswap.swap", args, <<src, dst>>, "swap",
                               <<src, dst, amount, min_return, referral>>, amount)
        ELSE Transact("mooniswap.swap", args, <<src, dst>>, "swap",
                      <<src, dst, amount, min_return, referral>>)

\* UniswapRouter.__swap_exact_tokens_for_tokens
swap_exact_tokens_for_tokens(op, args, amount_in, min_amount_out, path) ==
    Transact(op, args, path, "swapExactTokensForTokens", <<amount_in, min_amount_out>>)

\* UniswapRouter.__swap_exact_eth_for_tokens
swap_exact_eth_for_tokens(op, args, amount_in, min_amount_out, path) ==
    TransactWithValue(op, args, path, "swapExactETHForTokens", <<min_amount_out>>, amount_in)

\* UniswapRouter.__swap_exact_tokens_for_eth
swap_exact_tokens_for_eth(op, args, amount_in, min_amount_out, path) ==
    Transact(op, args, path, "swapExactTokensForETH", <<amount_in, min_amount_out>>)

\* UniswapRouter.__swap_tokens_for_exact_tokens
swap_tokens_for_exact_tokens(op, args, amount_out, max_amount_in, path) ==
    Transact(op, args, path, "swapTokensForExactTokens", <<amount_out, max_amount_in>>)

\* UniswapRouter.__swap_tokens_for_exact_eth
swap_tokens_for_exact_eth(op, args, amount_out, max_amount_in, path) ==
    Transact(op, args, path, "swapTokensForExactETH", <<amount_out, max_amount_in>>)

\* UniswapRouter.__swap_eth_for_exact_tokens
swap_eth_for_exact_tokens(op, args, amount_out, max_amount_in, path) ==
    TransactWithValue(op, args, path, "swapETHForExactTokens", <<amount_out>>, max_amount_in)

\* UniswapPair.reserves: the pair's getReserves(), in the pair's own order
pair_reserves(p) ==
    [first_token |-> 0, first_token_amount |-> p.r[0],
     second_token |-> 1, second_token_amount |-> p.r[1]]

\* a call of a view function of the router contract
ContractCall(op, args, function_name, parameters) ==
    Probe(op, args, <<>>, function_name, parameters, FALSE, 0)

\* UniswapRouter.get_quote: the call to the router's quote
get_quote(p, first_token, second_token, first_token_amount) ==
    LET reserves == pair_reserves(p)
    IN  ContractCall("get_quote", <<first_token, second_token, first_token_amount>>, "quote",
                     <<first_token_amount, reserves.first_token_amount, reserves.second_token_amount>>)

\* UniswapRouter.get_amount_input: the call to the router's getAmountIn
get_amount_input(p, first_token, second_token, amount_output) ==
    LET reserves == pair_reserves(p)
    IN  ContractCall("get_amount_input", <<first_token, second_token, amount_output>>, "getAmountIn",
                     <<amount_output, reserves.first_token_amount, reserves.second_token_amount>>)

\* UniswapRouter.get_amount_output: the call to the router's getAmountOut
get_amount_output(p, first_token, second_token, amount_input) ==
    LET reserves == pair_reserves(p)
    IN  ContractCall("get_amount_output", <<first_token, second_token, amount_input>>, "getAmountOut",
                     <<amount_input, reserves.first_token_amount, reserves.second_token_amount>>)

\* swap_from_exact_amount testing the end of the path before its start
transact_swap_from_exact_amount_end_first(amount_in, min_amount_out, path) ==
    LET op == "swap_from_exact_amount"
        args == <<amount_in, min_amount_out>> \o path
    IN  IF ~(Len(path) >= 2) THEN AssertionError(op, args)
        ELSE IF path[Len(path)] = ZeroAddress
        THEN swap_exact_tokens_for_eth(op, args, amount_in, min_amount_out, path)
        ELSE IF path[1] = ZeroAddress
        THEN swap_exact_eth_for_tokens(op, args, amount_in, min_amount_out, path)
        ELSE swap_exact_tokens_for_tokens(op, args, amount_in, min_amount_out, path)

\* UniswapRouter.swap_from_exact_amount on a path of addresses
transact_swap_from_exact_amount(amount_in, min_amount_out, path) ==
    LET op == "swap_from_exact_amount"
        args == <<amount_in, min_amount_out>> \o path
    IN  IF ~(Len(path) >= 2) THEN AssertionError(op, args)
        ELSE IF path[1] = ZeroAddress
        THEN swap_exact_eth_for_tokens(op, args, amount_in, min_amount_out, path)
        ELSE IF path[Len(path)] = ZeroAddress
        THEN swap_exact_tokens_for_eth(op, args, amount_in, min_amount_out, path)
        ELSE swap_exact_tokens_for_tokens(op, args, amount_in, min_amount_out, path)

\* UniswapRouter.swap_to_exact_amount on a path of addresses
transact_swap_to_exact_amount(max_amount_in, amount_out, path) ==
    LET op == "swap_to_exact_amount"
        args == <<max_amount_in, amount_out>> \o path
    IN  IF ~(Len(path) >= 2) THEN AssertionError(op, args)
        ELSE IF path[1] = ZeroAddress
        THEN swap_eth_for_exact_tokens(op, args, amount_out, max_amount_in, path)
        ELSE IF path[Len(path)] = ZeroAddress
        THEN swap_tokens_for_exact_eth(op, args, amount_out, max_amount_in, path)
        ELSE swap_tokens_for_exact_tokens(op, args, amount_out, max_amount_in, path)

(***************************************************************************)
(* State machine: a keeper that calls set_price once per cycle with a      *)
(* fixed configuration; between cycles the transaction it got back may be  *)
(* sent to the pool.                                                       *)
(***************************************************************************)
Init ==
    /\ pool \in [r : [Tokens -> Reserves], fee : Fees]
    /\ cfg \in [maker : Makers, market_price : MarketPrices,
                first_token : Tokens, max_delta_on_percent : Tolerances]
    /\ call = NoCall
    /\ cycles = 0
    /\ executed = "no"
    /\ prev = [call |-> NoCall, executed |-> "no"]
    /\ probe = NoProbe

MooniswapSetPrice ==
    /\ cfg.maker = "mooniswap"
    /\ cycles < MaxCycles
    /\ call' = mooniswap_set_price(pool, cfg.market_price, cfg.first_token,
                                   Other(cfg.first_token), cfg.max_delta_on_percent)
    /\ cycles' = cycles + 1
    /\ prev' = [call |-> call, executed |-> executed]
    /\ executed' = "no"
    /\ UNCHANGED <<pool, cfg, probe>>

UniswapSetPrice ==
    /\ cfg.maker = "uniswap"
    /\ cycles < MaxCycles
    /\ call' = uniswap_set_price(pool, cfg.market_price, cfg.first_token,
                                 Other(cfg.first_token), cfg.max_delta_on_percent)
    /\ cycles' = cycles + 1
    /\ prev' = [call |-> call, executed |-> executed]
    /\ executed' = "no"
    /\ UNCHANGED <<pool, cfg, probe>>

\* the transaction is mined
SwapMined ==
    /\ call.outcome = "trade"
    /\ executed = "no"
    /\ CanExecute(pool, SwapOf(call))
    /\ pool' = Executed(pool, SwapOf(call))
    /\ executed' = "done"
    /\ UNCHANGED <<cfg, call, cycles, prev, probe>>

\* the transaction reverts
SwapReverted ==
    /\ call.outcome = "trade"
    /\ executed = "no"
    /\ ~CanExecute(pool, SwapOf(call))
    /\ executed' = "reverted"
    /\ UNCHANGED <<pool, cfg, call, cycles, prev, probe>>

Next ==
    \/ MooniswapSetPrice
    \/ UniswapSetPrice
    \/ SwapMined
    \/ SwapReverted

Spec == Init /\ [][Next]_vars

(***************************************************************************)
(* State machine of single calls: one function of the wrappers is called   *)
(* once on a pool.                                                         *)
(***************************************************************************)
WrapperInit ==
    /\ pool \in [r : [Tokens -> {ReserveUnit, ReserveUnit * MaxReserve}], fee : Fees]
    /\ cfg = [maker |-> "uniswap", market_price |-> WAD,
              first_token |-> 0, max_delta_on_percent |-> 0]
    /\ call = NoCall
    /\ cycles = 0
    /\ executed = "no"
    /\ prev = [call |-> NoCall, executed |-> "no"]
    /\ probe = NoProbe

MooniswapCalculateValue ==
    /\ probe = NoProbe
    /\ \E value \in Values, percent \in Percents :
          probe' = Returned("mooniswap.calculate_value", <<value, percent>>,
                            mooniswap_calculate_value(value, percent))
    /\ UNCHANGED <<pool, cfg, call, cycles, executed, prev>>

UniswapCalculateValue ==
    /\ probe = NoProbe
    /\ \E value \in Values, percent \in Percents :
          probe' = Returned("uniswap.calculate_value", <<value, percent>>,
                            uniswap_calculate_value(value, percent))
    /\ UNCHANGED <<pool, cfg, call, cycles, executed, prev>>

MooniswapSwap ==
    /\ probe = NoProbe
    /\ \E src \in Addresses, dst \in Addresses, amount \in Amounts, min_return \in Amounts :
          probe' = transact_mooniswap_swap(src, dst, amount, min_return)
    /\ UNCHANGED <<pool, cfg, call, cycles, executed, prev>>

SwapFromExactAmount ==
    /\ probe = NoProbe
    /\ \E amount_in \in Amounts, min_amount_out \in Amounts, path \in Paths :
          probe' = transact_swap_from_exact_amount(amount_in, min_amount_out, path)
    /\ UNCHANGED <<pool, cfg, call, cycles, executed, prev>>

SwapToExactAmount ==
    /\ probe = NoProbe
    /\ \E max_amount_in \in Amounts, amount_out \in Amounts, path \in Paths :
          probe' = transact_swap_to_exact_amount(max_amount_in, amount_out, path)
    /\ UNCHANGED <<pool, cfg, call, cycles, executed, prev>>

GetQuote ==
    /\ probe = NoProbe
    /\ \E first_token \in Tokens, first_token_amount \in Amounts :
          probe' = get_quote(pool, first_token, Other(first_token), first_token_amount)
    /\ UNCHANGED <<pool, cfg, call, cycles, executed, prev>>

GetAmountInput ==
    /\ probe = NoProbe
    /\ \E first_token \in Tokens, amount_output \in Amounts :
          probe' = get_amount_input(pool, first_token, Other(first_token), amount_output)
    /\ UNCHANGED <<pool, cfg, call, cycles, executed, prev>>

GetAmountOutput ==
    /\ probe = NoProbe
    /\ \E first_token \in Tokens, amount_input \in Amounts :
          probe' = get_amount_output(pool, first_token, Other(first_token), amount_input)
    /\ UNCHANGED <<pool, cfg, call, cycles, executed, prev>>

WrapperNext ==
    \/ MooniswapCalculateValue
    \/ UniswapCalculateValue
    \/ MooniswapSwap
    \/ SwapFromExactAmount
    \/ SwapToExactAmount
    \/ GetQuote
    \/ GetAmountInput
    \/ GetAmountOutput

WrapperSpec == WrapperInit /\ [][WrapperNext]_vars

(***************************************************************************)
(* Vocabulary of the properties.                                           *)
(***************************************************************************)
Called == call.outcome # "idle"

\* the caller's token A and token B
TokenA == cfg.first_token
TokenB == Other(cfg.first_token)

\* the preconditions of the contract, on the snapshot the call read
ValidInput ==
    /\ cfg.market_price > 0
    /\ cfg.max_delta_on_percent >= 0
    /\ call.ra > 0
    /\ call.rb > 0

\* pool_price = amount_a / amount_b as a fixed-point amount
PoolPrice == WadDiv(call.ra, call.rb)

\* |market_price / pool_price - 1| * 100 <= tolerance, cleared of the division
InDeadZone ==
    /\ PoolPrice > 0
    /\ Abs(cfg.market_price * 100 - 100 * PoolPrice) <= cfg.max_delta_on_percent * PoolPrice

\* |market_price / pool_price - 1| * 100 = tolerance
OnBoundary ==
    /\ PoolPrice > 0
    /\ Abs(cfg.market_price * 100 - 100 * PoolPrice) = cfg.max_delta_on_percent * PoolPrice

AsksQuote == \E i \in 1..Len(call.log) : call.log[i].op \in {"quote", "quote_failed"}
BuildsSwap == \E i \in 1..Len(call.log) : call.log[i].op = "swap"
Trades == call.outcome = "trade"
TheSwap == SwapOf(call)
TheQuote == call.log[2]

\* the target reserves of the snapshot the call read
NewAmountA == NewReserved(cfg.market_price, call.ra, call.rb).a
NewAmountB == NewReserved(cfg.market_price, call.ra, call.rb).b

SellsAForB == Trades /\ TheSwap.src = TokenA /\ TheSwap.dst = TokenB
SellsBForA == Trades /\ TheSwap.src = TokenB /\ TheSwap.dst = TokenA

\* the amount of the sold token handed to the swap
InputAmount == IF TheSwap.kind = "exact_in" THEN TheSwap.amount ELSE TheSwap.limit

(***************************************************************************)
(* C1  Dead zone: with market_price > 0, positive reserves and             *)
(* tolerance >= 0, a divergence of at most the tolerance (boundary         *)
(* included) makes set_price return None without a quote or a swap.        *)
(***************************************************************************)
C1_DeadZone ==
    (Called /\ ValidInput /\ InDeadZone)
        => (call.outcome = "none" /\ ~AsksQuote /\ ~BuildsSwap)

\* a call exactly on the boundary of a non-zero tolerance
C1_Witness ==
    /\ Called /\ ValidInput /\ OnBoundary
    /\ cfg.max_delta_on_percent > 0
    /\ call.outcome = "none"

(***************************************************************************)
(* C2  Direction: within the preconditions, a trade emitted while          *)
(* market_price > pool_price sells token A for token B, and one emitted    *)
(* while market_price < pool_price sells token B for token A.              *)
(***************************************************************************)
C2_Direction ==
    (Called /\ ValidInput /\ Trades)
        => /\ (cfg.market_price > PoolPrice => SellsAForB)
           /\ (cfg.market_price < PoolPrice => SellsBForA)
           /\ cfg.market_price # PoolPrice

\* a Uniswap trade below the pool price, selling B for A
C2_Witness ==
    /\ Called /\ ValidInput /\ cfg.maker = "uniswap"
    /\ cfg.market_price < PoolPrice
    /\ SellsBForA
    /\ TheSwap.amount > 0 /\ TheSwap.limit > 0

(***************************************************************************)
(* C3  Sell-A magnitude: every trade that sells token A for token B is     *)
(* submitted with input_amount = new_amount_a - amount_a, a positive       *)
(* amount of token A.                                                      *)
(***************************************************************************)
C3_SellAMagnitude ==
    (Called /\ ValidInput /\ SellsAForB)
        => (InputAmount = NewAmountA - call.ra /\ InputAmount > 0)

C5_NoZeroAmountTrade ==
    (Called /\ ValidInput /\ BuildsSwap) => InputAmount # 0

(***************************************************************************)
(* C6  Zero reserve: a call that reads amount_a = 0 or amount_b = 0 ends   *)
(* in an error, having asked for no quote and built no swap.               *)
(***************************************************************************)
C6_ZeroReserveRejected ==
    (Called /\ (call.ra = 0 \/ call.rb = 0))
        => (call.outcome = "error" /\ ~AsksQuote /\ ~BuildsSwap)

\* a call on a pool whose token A side is empty
C6_Witness ==
    /\ Called /\ call.ra = 0 /\ call.rb > 0
    /\ cfg.market_price > 0 /\ cfg.max_delta_on_percent >= 0
    /\ call.outcome = "error"

(***************************************************************************)
(* C7  Precondition violations: a call with market_price <= 0 or with a    *)
(* negative tolerance ends in an error and builds no swap.                 *)
(***************************************************************************)
C7_PreconditionsAreErrors ==
    (Called /\ (cfg.market_price <= 0 \/ cfg.max_delta_on_percent < 0))
        => (call.outcome = "error" /\ ~BuildsSwap)

(***************************************************************************)
(* C8  (as claimed) Every swap fixes its input, and its minimum output     *)
(* is the live quote for that input and direction scaled down by a         *)
(* slippage margin.                                                        *)
(***************************************************************************)
C8_Original ==
    (Called /\ ValidInput /\ Trades)
        => /\ TheSwap.kind = "exact_in"
           /\ TheQuote.op = "quote"
           /\ TheQuote.amount = TheSwap.amount
           /\ TheQuote.src = TheSwap.src /\ TheQuote.dst = TheSwap.dst
           /\ TheSwap.limit <= TheQuote.limit
           /\ (TheQuote.limit > 0 => TheSwap.limit < TheQuote.limit)

(***************************************************************************)
(* C8  (amended) Every swap carries, unscaled, the live quote the pool     *)
(* gave in the same call for the swap's amount and direction: the minimum  *)
(* output of an exact-input swap (Mooniswap, Uniswap sell-A) is the        *)
(* quoted output, and the Uniswap sell-B swap is an exact-output swap      *)
(* whose maximum input is the quoted input.                                *)
(***************************************************************************)
C8_QuoteIsTheLimit ==
    (Called /\ Trades /\ executed = "no")
        => /\ TheQuote.op = "quote"
           /\ TheQuote.kind = TheSwap.kind
           /\ TheQuote.amount = TheSwap.amount
           /\ TheQuote.src = TheSwap.src /\ TheQuote.dst = TheSwap.dst
           /\ TheSwap.limit = TheQuote.limit
           /\ TheSwap.kind = (IF cfg.maker = "uniswap" /\ TheSwap.src = TokenB
                              THEN "exact_out" ELSE "exact_in")
           /\ TheSwap.limit =
                 (IF TheSwap.kind = "exact_in"
                  THEN PoolOut(TheSwap.amount, pool.r[TheSwap.src], pool.r[TheSwap.dst], pool.fee)
                  ELSE PoolIn(TheSwap.amount, pool.r[TheSwap.src], pool.r[TheSwap.dst], pool.fee))

\* a Mooniswap sell-A trade on a pool with a fee, whose minimum output is
\* the quote and differs from the theoretical amount_b - new_amount_b
C8_Witness ==
    /\ Called /\ ValidInput /\ cfg.maker = "mooniswap" /\ executed = "no"
    /\ pool.fee > 0
    /\ SellsAForB
    /\ NewAmountA > call.ra
    /\ NewAmountB > 0 /\ NewAmountB < call.rb
    /\ TheSwap.amount > 0
    /\ TheSwap.limit > 0
    /\ TheSwap.limit = TheQuote.limit
    /\ TheSwap.limit # call.rb - NewAmountB

(***************************************************************************)
(* C9  Convergence: once the emitted trade has been executed on a          *)
(* fee-free pool, the next set_price with the same market price returns    *)
(* None, so no second trade is submitted.                                  *)
(***************************************************************************)
C9_Convergence ==
    (/\ cycles = 2
     /\ pool.fee = 0
     /\ cfg.market_price > 0 /\ cfg.max_delta_on_percent >= 0
     /\ prev.call.outcome = "trade" /\ prev.call.ra > 0 /\ prev.call.rb > 0
     /\ prev.executed = "done")
        => call.outcome = "none"

(***************************************************************************)
(* C10  Cycle ordering: a call reads the reserves first and once; it asks  *)
(* for a quote only after deciding that a trade is needed; it builds a     *)
(* swap only after a quote of the same call for the same amount and        *)
(* direction; it asks for at most one quote and builds at most one swap.   *)
(***************************************************************************)
C10_CycleOrdering ==
    Called =>
        /\ Len(call.log) \in 1..3
        /\ call.log[1].op = "reserves"
        /\ \A i \in 2..Len(call.log) :
              /\ call.log[i].op # "reserves"
              /\ call.log[i].op \in {"quote", "quote_failed"} =>
                    (i = 2 /\ PoolPrice > 0 /\ ~InDeadZone)
              /\ call.log[i].op = "swap" =>
                    /\ i = 3
                    /\ call.log[2].op = "quote"
                    /\ call.log[2].kind = call.log[3].kind
                    /\ call.log[2].amount = call.log[3].amount
                    /\ call.log[2].src = call.log[3].src
                    /\ call.log[2].dst = call.log[3].dst
        /\ (Len(call.log) = 3 <=> Trades)

\* a Uniswap call that read, asked for a quote and built the swap
C10_Witness ==
    /\ Called /\ ValidInput /\ cfg.maker = "uniswap"
    /\ Len(call.log) = 3
    /\ call.log[2].op = "quote" /\ call.log[3].op = "swap"
    /\ call.log[3].amount > 0 /\ call.log[3].limit > 0
    /\ NewAmountA > call.ra

(***************************************************************************)
(* The theoretical post-trade reserves of an emitted trade: the reserves   *)
(* the call read, moved by the two amounts _get_amounts returned, in the   *)
(* direction of the trade.                                                 *)
(***************************************************************************)
TheoreticalPostA ==
    IF cfg.maker = "mooniswap"
    THEN LET d == mooniswap_get_amounts(cfg.market_price, call.ra, call.rb)
         IN  IF SellsAForB THEN call.ra + d.first_token_amount_delta
                           ELSE call.ra - d.first_token_amount_delta
    ELSE call.ra - uniswap_get_amounts(cfg.market_price, call.ra, call.rb).exact_value

TheoreticalPostB ==
    IF cfg.maker = "mooniswap"
    THEN LET d == mooniswap_get_amounts(cfg.market_price, call.ra, call.rb)
         IN  IF SellsAForB THEN call.rb - d.second_token_amount_delta
                           ELSE call.rb + d.second_token_amount_delta
    ELSE call.rb + uniswap_get_amounts(cfg.market_price, call.ra, call.rb).limit

(***************************************************************************)
(* C11  Invariant preservation: for every emitted trade the theoretical    *)
(* post-trade reserves of _get_amounts multiply to k = amount_a * amount_b *)
(* up to one unit of least precision.                                      *)
(***************************************************************************)
C11_InvariantPreservation ==
    (Called /\ ValidInput /\ Trades)
        => Abs(WadMul(TheoreticalPostA, TheoreticalPostB) - WadMul(call.ra, call.rb)) <= 1

(***************************************************************************)
(* The same maker called on the same reserves with another market price.   *)
(***************************************************************************)
CallAt(market_price) ==
    IF cfg.maker = "mooniswap"
    THEN mooniswap_set_price(pool, market_price, TokenA, TokenB, cfg.max_delta_on_percent)
    ELSE uniswap_set_price(pool, market_price, TokenA, TokenB, cfg.max_delta_on_percent)

\* the amount of the sold token in the swap a call built
InputAmountOf(c) ==
    IF SwapOf(c).kind = "exact_in" THEN SwapOf(c).amount ELSE SwapOf(c).limit

\* |market_price / pool_price - 1| * 100 > tolerance
OutsideDeadZoneAt(market_price) ==
    Abs(market_price * 100 - 100 * PoolPrice) > cfg.max_delta_on_percent * PoolPrice

(***************************************************************************)
(* C12  Monotonicity: on the same reserves, of two market prices on the    *)
(* same side of the pool price and outside the dead zone, the one further  *)
(* from the pool price trades a strictly larger input amount, unless both  *)
(* amounts are zero.                                                       *)
(***************************************************************************)
C12_Monotonicity ==
    (Called /\ ValidInput /\ Trades /\ executed = "no")
        => \A mp2 \in MarketPrices :
              (/\ mp2 > 0
               /\ (mp2 > PoolPrice) = (cfg.market_price > PoolPrice)
               /\ (mp2 < PoolPrice) = (cfg.market_price < PoolPrice)
               /\ OutsideDeadZoneAt(mp2)
               /\ Abs(mp2 - PoolPrice) > Abs(cfg.market_price - PoolPrice)
               /\ CallAt(mp2).outcome = "trade")
                  => \/ InputAmountOf(CallAt(mp2)) > InputAmount
                     \/ (InputAmountOf(CallAt(mp2)) = 0 /\ InputAmount = 0)

TakesSellA == AsksQuote /\ call.log[2].src = TokenA
TakesSellB == AsksQuote /\ call.log[2].src = TokenB

(***************************************************************************)
(* C15  The two direction tests agree: a call that takes the sell-A        *)
(* branch has new_amount_a > amount_a and new_amount_b < amount_b, a call  *)
(* that takes the sell-B branch has new_amount_a < amount_a and            *)
(* new_amount_b > amount_b, and the amount it hands on is positive.        *)
(***************************************************************************)
C15_DirectionTestsAgree ==
    (Called /\ ValidInput)
        => /\ TakesSellA => (NewAmountA > call.ra /\ NewAmountB < call.rb)
           /\ TakesSellB => (NewAmountA < call.ra /\ NewAmountB > call.rb)
           /\ AsksQuote => call.log[2].amount > 0

(***************************************************************************)
(* The two makers called on the same reserves with the same arguments.     *)
(***************************************************************************)
MooniswapCall ==
    mooniswap_set_price(pool, cfg.market_price, TokenA, TokenB, cfg.max_delta_on_percent)

UniswapCall ==
    uniswap_set_price(pool, cfg.market_price, TokenA, TokenB, cfg.max_delta_on_percent)

(***************************************************************************)
(* C18  The two market makers agree: on the same market price, reserves    *)
(* and tolerance, either both return None or both trade, selling the same  *)
(* token for the same token; when they sell token A both submit the same   *)
(* input amount of token A.                                                *)
(***************************************************************************)
C18_MakersAgree ==
    (Called /\ ValidInput /\ executed = "no")
        => /\ call \in {MooniswapCall, UniswapCall}
           /\ \/ MooniswapCall.outcome = "none" /\ UniswapCall.outcome = "none"
              \/ /\ MooniswapCall.outcome = "trade" /\ UniswapCall.outcome = "trade"
                 /\ SwapOf(MooniswapCall).src = SwapOf(UniswapCall).src
                 /\ SwapOf(MooniswapCall).dst = SwapOf(UniswapCall).dst
                 /\ SwapOf(MooniswapCall).src = TokenA
                       => InputAmountOf(MooniswapCall) = InputAmountOf(UniswapCall)

(***************************************************************************)
(* C14  calculate_value(value, percent) returns value plus percent percent *)
(* of value, value + value * percent / 100 to within the unit the result   *)
(* is truncated to, for positive and negative percent alike, and the       *)
(* Mooniswap and the Uniswap version return the same result.               *)
(***************************************************************************)
C14_CalculateValue ==
    probe.op \in {"mooniswap.calculate_value", "uniswap.calculate_value"}
        => LET value == probe.args[1]
               percent == probe.args[2]
               result == probe.fn_args[1]
           IN  /\ Abs(100 * (result - value) - value * percent) < 100
               /\ result = mooniswap_calculate_value(value, percent)
               /\ result = uniswap_calculate_value(value, percent)

(***************************************************************************)
(* Vocabulary of the transactions built.                                   *)
(***************************************************************************)
\* the path handed to swap_from_exact_amount / swap_to_exact_amount
PathArg == SubSeq(probe.args, 3, Len(probe.args))

BuildsTransaction == probe.fn \notin {"none", "return", "AssertionError"}

\* the router entry point for a path, by kind of swap
EntryPoint(exact_in, path) ==
    IF path[1] = ZeroAddress
    THEN (IF exact_in THEN "swapExactETHForTokens" ELSE "swapETHForExactTokens")
    ELSE IF path[Len(path)] = ZeroAddress
    THEN (IF exact_in THEN "swapExactTokensForETH" ELSE "swapTokensForExactETH")
    ELSE (IF exact_in THEN "swapExactTokensForTokens" ELSE "swapTokensForExactTokens")

(***************************************************************************)
(* C16  Native-asset handling: a swap transaction carries native value     *)
(* exactly when the sold token (Mooniswap src, Uniswap path[0]) is the     *)
(* zero address, and the value is then the input amount (max_amount_in     *)
(* for exact-output swaps); the router picks the ETH-input entry point     *)
(* iff path[0] is the zero address, otherwise the ETH-output entry point   *)
(* iff path[-1] is, otherwise the token-to-token one; a path of fewer      *)
(* than two tokens builds no transaction.                                  *)
(***************************************************************************)
C16_NativeAsset ==
    /\ probe.op = "mooniswap.swap"
          => /\ probe.fn = "swap"
             /\ probe.has_value = (probe.args[1] = ZeroAddress)
             /\ probe.has_value => probe.value = probe.args[3]
    /\ probe.op \in {"swap_from_exact_amount", "swap_to_exact_amount"}
          => IF Len(PathArg) < 2
             THEN ~BuildsTransaction /\ ~probe.has_value
             ELSE /\ probe.fn = EntryPoint(probe.op = "swap_from_exact_amount", PathArg)
                  /\ probe.path = PathArg
                  /\ probe.has_value = (PathArg[1] = ZeroAddress)
                  /\ probe.has_value => probe.value = probe.args[1]

\* an exact-input swap of a positive amount from the native asset back to
\* the native asset through a token: value attached, ETH-input entry point
C16_Witness ==
    /\ probe.op = "swap_from_exact_amount"
    /\ Len(PathArg) = 3
    /\ PathArg[1] = ZeroAddress /\ PathArg[3] = ZeroAddress /\ PathArg[2] # ZeroAddress
    /\ probe.args[1] > 0
    /\ probe.fn = "swapExactETHForTokens"
    /\ probe.has_value /\ probe.value = probe.args[1]

(***************************************************************************)
(* C17  Quote argument order: get_quote, get_amount_input and              *)
(* get_amount_output hand the pricing function the reserve of the          *)
(* caller's first_token as the input-side reserve and the reserve of the   *)
(* caller's second_token as the output-side reserve, whichever of the two  *)
(* is the pair's token0.                                                   *)
(***************************************************************************)
C17_QuoteArgumentOrder ==
    probe.op \in {"get_quote", "get_amount_input", "get_amount_output"}
        => /\ probe.fn_args[1] = probe.args[3]
           /\ probe.fn_args[2] = pool.r[probe.args[1]]
           /\ probe.fn_args[3] = pool.r[probe.args[2]]

====
